---------------------------- MODULE Spec2Model ----------------------------
(***************************************************************************)
(* avr-switchbot: an ATmega328P program with one main loop and two         *)
(* interrupt handlers (PCINT2: infrared edge, TIMER0_COMPA: 50us tick).    *)
(*                                                                         *)
(* The CPU runs one context at a time.  `isr` is the stack of active       *)
(* handlers; the main program steps only when it is empty.  The global     *)
(* interrupt flag `iflag` (SREG.I) gates the dispatch of a handler: the    *)
(* hardware clears it on entry and sets it on reti, and                    *)
(* avr_device::interrupt::free saves it, clears it, runs the closure and   *)
(* restores the saved value.  Every interrupt::free call is three steps    *)
(* (enter, body, exit) so that an interrupt arriving in between is a       *)
(* behaviour of the model.                                                 *)
(*                                                                         *)
(* The infrared decoder (infrared::Receiver) is an external stateful       *)
(* component: event_instant is a nondeterministic choice among a complete  *)
(* command, a partial frame and a decode error.                            *)
(***************************************************************************)
EXTENDS Integers, Sequences, FiniteSets, TLC

(* ---- program constants ---- *)
SERVO_MIN == 125
SERVO_MAX == 625
SERVO_MID == 375
\* A u32 is held as two 16-bit limbs [hi, lo], of value hi * 2^16 + lo: TLC's
\* integers are 32-bit signed and cannot hold 2^32.  LIMB is 2^16.
LIMB == 65536

(* ---- bounds of the model ---- *)
\* timer compare events in one behaviour
MaxTicks == 2
\* pin-change events (infrared edges) in one behaviour
MaxEdges == 2

(* ---- values ---- *)
\* Option<T>: None is the empty sequence, Some(x) the one-element sequence
None == << >>
Some(x) == << x >>

\* NecCommand {addr, cmd, repeat}, over a small set of codes
CmdCodes == {0, 1}
IrCmd == [addr : {0}, cmd : CmdCodes, repeat : BOOLEAN]

\* Result<Option<NecCommand>, Error> of Receiver::event_instant:
\* Ok(Some(cmd)) a complete command, Ok(None) a partial frame, Err(_) an error
Outcomes ==
    {[kind |-> "Ok", val |-> Some(c)] : c \in IrCmd}
        \cup {[kind |-> "Ok", val |-> None], [kind |-> "Err", val |-> None]}
\* the handler's result before the decoder has been called
NoOutcome == [kind |-> "none", val |-> None]

VARIABLES
    \* shared cells and hardware
    cntr,       \* CLOCK.cntr : Mutex<Cell<u32>>
    CMD,        \* CMD : Mutex<Cell<Option<IrCmd>>>
    pos,        \* SERVO.pos : Mutex<Cell<u16>>
    ocr1a,      \* TC1.OCR1A, the PWM compare register
    RECEIVER,   \* static mut RECEIVER : "None" or "Some"
    iflag,      \* SREG.I, the global interrupt enable
    ocie0a,     \* TIMSK0.OCIE0A (timer 0 running with its compare interrupt on)
    pcie2,      \* PCICR.PCIE2 and PCMSK2.PCINT18
    ocf0a,      \* TIFR0.OCF0A, the pending timer compare interrupt
    pcif2,      \* PCIFR.PCIF2, the pending pin-change interrupt
    \* main program
    pc,         \* call stack of main: Head is the current place
    cmd,        \* main: the Option<IrCmd> taken from the mailbox
    curr_pos,   \* toggle: curr_pos
    new_pos,    \* toggle: new_pos, and main's new_pos
    arg_pos,    \* set_pos: the parameter pos
    msaved,     \* main: SREG saved by interrupt::free
    \* handlers
    isr,        \* stack of the handlers being executed
    ppc,        \* PCINT2: place
    now,        \* PCINT2: now
    outcome,    \* PCINT2: the result of recv.event_instant(now)
    psaved,     \* PCINT2: SREG saved by interrupt::free
    tpc,        \* TIMER0_COMPA: place
    v,          \* Clock::tick: v
    tsaved,     \* TIMER0_COMPA: SREG saved by interrupt::free
    \* history (observers of the run, read by no action's guard but the bounds)
    v0,         \* the counter value the behaviour started from
    nTimerEv,   \* timer compare events so far
    nMasked,    \* those of them that occurred with the I flag clear
    nEdges,     \* pin-change events so far
    nTickCalls, \* calls of Clock::tick so far
    pubs,       \* the publishes since the last take: [val, settle]
    takenFrom,  \* pubs as it was at the last take
    calls,      \* the calls the main loop made since the last take
    nToggle,    \* calls of toggle() by the main loop so far
    nQualPub,   \* non-repeat, non-zero commands published so far
    togglePos,  \* the stored position at the last call of toggle()
    streak      \* the consecutive polls, up to the last, that took a button press

hwVars == <<cntr, CMD, pos, ocr1a, RECEIVER, iflag, ocie0a, pcie2, ocf0a, pcif2>>
mainVars == <<pc, cmd, curr_pos, new_pos, arg_pos, msaved>>
pcintVars == <<ppc, now, outcome, psaved>>
timerVars == <<tpc, v, tsaved>>
histVars ==
    <<v0, nTimerEv, nMasked, nEdges, nTickCalls, pubs, takenFrom, calls,
      nToggle, nQualPub, togglePos, streak>>
vars == <<hwVars, mainVars, isr, pcintVars, timerVars, histVars>>

(* ---- avr_device::interrupt::free ---- *)
\* FreeEnter without the cli: the closure runs with the I flag as it was
FreeEnterNoCli == iflag

\* the I flag once free has saved SREG and executed cli
FreeEnter == FALSE
\* FreeExit that enables interrupts (sei) instead of restoring SREG
FreeExitSei(saved) == TRUE

\* the I flag once free has restored the SREG it saved
FreeExit(saved) == saved

(* ---- pure functions of the program ---- *)
\* the u32 of limbs hi and lo
U32(hi, lo) == [hi |-> hi, lo |-> lo]

\* WrappingAdd1 counting a tick twice
WrappingAddTwo(x) == [hi |-> x.hi, lo |-> (x.lo + 2) % LIMB]

\* WrappingAdd1 as u32::saturating_add(x, 1)
SaturatingAdd1(x) ==
    IF x.lo + 1 < LIMB
    THEN [hi |-> x.hi, lo |-> x.lo + 1]
    ELSE IF x.hi + 1 < LIMB THEN [hi |-> x.hi + 1, lo |-> 0] ELSE x

\* u32::wrapping_add(x, 1): the carry out of the high limb is dropped
WrappingAdd1(x) ==
    IF x.lo + 1 < LIMB
    THEN U32(x.hi, x.lo + 1)
    ELSE U32((x.hi + 1) % LIMB, 0)

\* ToggleTarget as a move relative to the current position
ToggleTargetRelative(p) ==
    IF p <= SERVO_MID THEN p + SERVO_MAX ELSE p - SERVO_MAX

\* ToggleTarget with < for <=
ToggleTargetStrict(p) == IF p < SERVO_MID THEN SERVO_MAX ELSE SERVO_MIN

\* the position toggle() commands from curr_pos
ToggleTarget(p) == IF p <= SERVO_MID THEN SERVO_MAX ELSE SERVO_MIN

\* Qualifies without the test of the code
QualifiesAnyCode(c) == ~c.repeat

\* main's filter: !cmd.repeat && cmd.cmd != 0
Qualifies(c) == ~c.repeat /\ c.cmd # 0

\* a button press: a command that is no repeat and whose code is not 0
IsPress(val) == val # None /\ ~val[1].repeat /\ val[1].cmd # 0

(* ---- control ---- *)
MainAt(l) == isr = << >> /\ Head(pc) = l
Goto(l) == <<l>> \o Tail(pc)
Call(f, ret) == <<f, ret>> \o Tail(pc)
Return == Tail(pc)
InPcint(l) == isr # << >> /\ Head(isr) = "PCINT2" /\ ppc = l
InTimer(l) == isr # << >> /\ Head(isr) = "TIMER0_COMPA" /\ tpc = l

Init ==
    /\ cntr = U32(0, 0)
    /\ CMD = None
    /\ pos = SERVO_MIN
    /\ ocr1a = 0
    /\ RECEIVER = "None"
    /\ iflag = FALSE
    /\ ocie0a = FALSE
    /\ pcie2 = FALSE
    /\ ocf0a = FALSE
    /\ pcif2 = FALSE
    /\ pc = <<"clock_start">>
    /\ cmd = None
    /\ curr_pos = 0
    /\ new_pos = 0
    /\ arg_pos = 0
    /\ msaved = FALSE
    /\ isr = << >>
    /\ ppc = "idle"
    /\ now = U32(0, 0)
    /\ outcome = NoOutcome
    /\ psaved = FALSE
    /\ tpc = "idle"
    /\ v = U32(0, 0)
    /\ tsaved = FALSE
    /\ v0 = U32(0, 0)
    /\ nTimerEv = 0
    /\ nMasked = 0
    /\ nEdges = 0
    /\ nTickCalls = 0
    /\ pubs = << >>
    /\ takenFrom = << >>
    /\ calls = << >>
    /\ nToggle = 0
    /\ nQualPub = 0
    /\ togglePos = SERVO_MIN
    /\ streak = 0


(* ---- main: boot (main.rs 119-163) ---- *)
\* CLOCK.start(&dp.TC0): timer 0 in CTC mode, compare interrupt enabled
ClockStart ==
    /\ MainAt("clock_start")
    /\ ocie0a' = TRUE
    /\ pc' = Goto("ocr_init")
    /\ UNCHANGED <<cntr, CMD, pos, ocr1a, RECEIVER, iflag, pcie2, ocf0a, pcif2>>
    /\ UNCHANGED <<cmd, curr_pos, new_pos, arg_pos, msaved>>
    /\ UNCHANGED <<isr, pcintVars, timerVars, histVars>>

\* dp.TC1.ocr1a.write(|w| w.bits(SERVO_MIN))
OcrInit ==
    /\ MainAt("ocr_init")
    /\ ocr1a' = SERVO_MIN
    /\ pc' = Goto("pcint_cfg")
    /\ UNCHANGED <<cntr, CMD, pos, RECEIVER, iflag, ocie0a, pcie2, ocf0a, pcif2>>
    /\ UNCHANGED <<cmd, curr_pos, new_pos, arg_pos, msaved>>
    /\ UNCHANGED <<isr, pcintVars, timerVars, histVars>>

\* PcintCfg with the global interrupt enable moved up to it
PcintCfgSei ==
    /\ MainAt("pcint_cfg")
    /\ pcie2' = TRUE
    /\ iflag' = TRUE
    /\ pc' = Goto("recv_set")
    /\ UNCHANGED <<cntr, CMD, pos, ocr1a, RECEIVER, ocie0a, ocf0a, pcif2>>
    /\ UNCHANGED <<cmd, curr_pos, new_pos, arg_pos, msaved>>
    /\ UNCHANGED <<isr, pcintVars, timerVars, histVars>>

\* pcicr and pcmsk2: pin-change interrupt of PD2 enabled
PcintCfg ==
    /\ MainAt("pcint_cfg")
    /\ pcie2' = TRUE
    /\ pc' = Goto("recv_set")
    /\ UNCHANGED <<cntr, CMD, pos, ocr1a, RECEIVER, iflag, ocie0a, ocf0a, pcif2>>
    /\ UNCHANGED <<cmd, curr_pos, new_pos, arg_pos, msaved>>
    /\ UNCHANGED <<isr, pcintVars, timerVars, histVars>>

\* RECEIVER.replace(ir)
RecvSet ==
    /\ MainAt("recv_set")
    /\ RECEIVER' = "Some"
    /\ pc' = Goto("sei")
    /\ UNCHANGED <<cntr, CMD, pos, ocr1a, iflag, ocie0a, pcie2, ocf0a, pcif2>>
    /\ UNCHANGED <<cmd, curr_pos, new_pos, arg_pos, msaved>>
    /\ UNCHANGED <<isr, pcintVars, timerVars, histVars>>

\* avr_device::interrupt::enable()
Sei ==
    /\ MainAt("sei")
    /\ iflag' = TRUE
    /\ pc' = Goto("test_min1")
    /\ UNCHANGED <<cntr, CMD, pos, ocr1a, RECEIVER, ocie0a, pcie2, ocf0a, pcif2>>
    /\ UNCHANGED <<cmd, curr_pos, new_pos, arg_pos, msaved>>
    /\ UNCHANGED <<isr, pcintVars, timerVars, histVars>>

(* ---- main: startup test (main.rs 165-177) ---- *)
\* a call of SERVO.set_pos(&dp.TC1, p) from place l, returning to ret; the
\* delay_ms(1000) that precedes the call only lets time pass
TestCall(l, p, ret) ==
    /\ MainAt(l)
    /\ arg_pos' = p
    /\ pc' = Call("set_enter", ret)
    /\ UNCHANGED <<cmd, curr_pos, new_pos, msaved>>
    /\ UNCHANGED <<hwVars, isr, pcintVars, timerVars, histVars>>

TestMin1 == TestCall("test_min1", SERVO_MIN, "test_max")
TestMax == TestCall("test_max", SERVO_MAX, "test_min2")
TestMin2 == TestCall("test_min2", SERVO_MIN, "test_done")

\* delay_ms(1000) and "Startup complete": into the loop
TestDone ==
    /\ MainAt("test_done")
    /\ pc' = Goto("take_enter")
    /\ UNCHANGED <<cmd, curr_pos, new_pos, arg_pos, msaved>>
    /\ UNCHANGED <<hwVars, isr, pcintVars, timerVars, histVars>>

(* ---- Servo::set_pos (servo.rs 22-25) ---- *)
\* interrupt::free: save SREG, cli
SetPosEnter ==
    /\ MainAt("set_enter")
    /\ msaved' = iflag
    /\ iflag' = FreeEnter
    /\ pc' = Goto("set_body")
    /\ UNCHANGED <<cntr, CMD, pos, ocr1a, RECEIVER, ocie0a, pcie2, ocf0a, pcif2>>
    /\ UNCHANGED <<cmd, curr_pos, new_pos, arg_pos>>
    /\ UNCHANGED <<isr, pcintVars, timerVars, histVars>>

\* self.pos.borrow(cs).set(pos)
SetPosBody ==
    /\ MainAt("set_body")
    /\ pos' = arg_pos
    /\ pc' = Goto("set_exit")
    /\ UNCHANGED <<cntr, CMD, ocr1a, RECEIVER, iflag, ocie0a, pcie2, ocf0a, pcif2>>
    /\ UNCHANGED <<cmd, curr_pos, new_pos, arg_pos, msaved>>
    /\ UNCHANGED <<isr, pcintVars, timerVars, histVars>>

\* interrupt::free: restore SREG
SetPosExit ==
    /\ MainAt("set_exit")
    /\ iflag' = FreeExit(msaved)
    /\ pc' = Goto("set_ocr")
    /\ UNCHANGED <<cntr, CMD, pos, ocr1a, RECEIVER, ocie0a, pcie2, ocf0a, pcif2>>
    /\ UNCHANGED <<cmd, curr_pos, new_pos, arg_pos, msaved>>
    /\ UNCHANGED <<isr, pcintVars, timerVars, histVars>>

\* OcrValue in microseconds (4 per count) instead of counts
OcrValueMicros(p) == p * 4

\* the value set_pos writes to the compare register
OcrValue(p) == p

\* timer.ocr1a.write(|w| w.bits(pos)), outside the critical section; return
SetPosOcr ==
    /\ MainAt("set_ocr")
    /\ ocr1a' = OcrValue(arg_pos)
    /\ pc' = Return
    /\ UNCHANGED <<cntr, CMD, pos, RECEIVER, iflag, ocie0a, pcie2, ocf0a, pcif2>>
    /\ UNCHANGED <<cmd, curr_pos, new_pos, arg_pos, msaved>>
    /\ UNCHANGED <<isr, pcintVars, timerVars, histVars>>

(* ---- Servo::get_pos (servo.rs 28-30) ---- *)
GetPosEnter ==
    /\ MainAt("get_enter")
    /\ msaved' = iflag
    /\ iflag' = FreeEnter
    /\ pc' = Goto("get_body")
    /\ UNCHANGED <<cntr, CMD, pos, ocr1a, RECEIVER, ocie0a, pcie2, ocf0a, pcif2>>
    /\ UNCHANGED <<cmd, curr_pos, new_pos, arg_pos>>
    /\ UNCHANGED <<isr, pcintVars, timerVars, histVars>>

\* self.pos.borrow(cs).get(), the value toggle binds to curr_pos
GetPosBody ==
    /\ MainAt("get_body")
    /\ curr_pos' = pos
    /\ pc' = Goto("get_exit")
    /\ UNCHANGED <<cmd, new_pos, arg_pos, msaved>>
    /\ UNCHANGED <<hwVars, isr, pcintVars, timerVars, histVars>>

GetPosExit ==
    /\ MainAt("get_exit")
    /\ iflag' = FreeExit(msaved)
    /\ pc' = Return
    /\ UNCHANGED <<cntr, CMD, pos, ocr1a, RECEIVER, ocie0a, pcie2, ocf0a, pcif2>>
    /\ UNCHANGED <<cmd, curr_pos, new_pos, arg_pos, msaved>>
    /\ UNCHANGED <<isr, pcintVars, timerVars, histVars>>

(* ---- Servo::toggle (servo.rs 33-42) ---- *)
\* new_pos = if curr_pos <= SERVO_MID {MAX} else {MIN}; self.set_pos(timer, new_pos)
ToggleDecide ==
    /\ MainAt("toggle_decide")
    /\ new_pos' = ToggleTarget(curr_pos)
    /\ arg_pos' = ToggleTarget(curr_pos)
    /\ pc' = Call("set_enter", "toggle_ret")
    /\ UNCHANGED <<cmd, curr_pos, msaved>>
    /\ UNCHANGED <<hwVars, isr, pcintVars, timerVars, histVars>>

\* return new_pos
ToggleRet ==
    /\ MainAt("toggle_ret")
    /\ pc' = Return
    /\ UNCHANGED <<cmd, curr_pos, new_pos, arg_pos, msaved>>
    /\ UNCHANGED <<hwVars, isr, pcintVars, timerVars, histVars>>

(* ---- main: the loop (main.rs 179-211) ---- *)
\* avr_device::interrupt::free(|cs| CMD.borrow(cs).take()): save SREG, cli
TakeEnter ==
    /\ MainAt("take_enter")
    /\ msaved' = iflag
    /\ iflag' = FreeEnter
    /\ pc' = Goto("take_body")
    /\ UNCHANGED <<cntr, CMD, pos, ocr1a, RECEIVER, ocie0a, pcie2, ocf0a, pcif2>>
    /\ UNCHANGED <<cmd, curr_pos, new_pos, arg_pos>>
    /\ UNCHANGED <<isr, pcintVars, timerVars, histVars>>

\* TakeLeaves of a take that reads without clearing (Cell::get)
TakeLeavesValue(cell) == cell

\* what Cell::take leaves in the cell
TakeLeaves(cell) == None

\* CMD.borrow(cs).take(): the cell's value is returned and None is left
TakeBody ==
    /\ MainAt("take_body")
    /\ cmd' = CMD
    /\ CMD' = TakeLeaves(CMD)
    /\ pc' = Goto("take_exit")
    /\ takenFrom' = pubs
    /\ pubs' = << >>
    /\ calls' = << >>
    /\ streak' = IF IsPress(CMD) THEN streak + 1 ELSE 0
    /\ UNCHANGED <<cntr, pos, ocr1a, RECEIVER, iflag, ocie0a, pcie2, ocf0a, pcif2>>
    /\ UNCHANGED <<curr_pos, new_pos, arg_pos, msaved>>
    /\ UNCHANGED <<isr, pcintVars, timerVars>>
    /\ UNCHANGED <<v0, nTimerEv, nMasked, nEdges, nTickCalls, nToggle, nQualPub, togglePos>>

\* interrupt::free: restore SREG
TakeExit ==
    /\ MainAt("take_exit")
    /\ iflag' = FreeExit(msaved)
    /\ pc' = Goto("filter")
    /\ UNCHANGED <<cntr, CMD, pos, ocr1a, RECEIVER, ocie0a, pcie2, ocf0a, pcif2>>
    /\ UNCHANGED <<cmd, curr_pos, new_pos, arg_pos, msaved>>
    /\ UNCHANGED <<isr, pcintVars, timerVars, histVars>>

\* whether the main loop acts on what it took:
\* if let Some(cmd) = ... { if !cmd.repeat && cmd.cmd != 0 {
Acts(taken) == taken # None /\ Qualifies(taken[1])

\* the two tests of the loop body; the report over serial changes no state
Filter ==
    /\ MainAt("filter")
    /\ pc' = IF Acts(cmd) THEN Goto("toggle") ELSE Goto("sleep")
    /\ UNCHANGED <<cmd, curr_pos, new_pos, arg_pos, msaved>>
    /\ UNCHANGED <<hwVars, isr, pcintVars, timerVars, histVars>>

\* let new_pos = SERVO.toggle(&dp.TC1): the call, whose first statement is
\* self.get_pos()
Toggle ==
    /\ MainAt("toggle")
    /\ pc' = <<"get_enter", "toggle_decide", "settle">> \o Tail(pc)
    /\ calls' = Append(calls, [op |-> "toggle"])
    /\ nToggle' = nToggle + 1
    /\ togglePos' = pos
    /\ UNCHANGED <<cmd, curr_pos, new_pos, arg_pos, msaved>>
    /\ UNCHANGED <<hwVars, isr, pcintVars, timerVars>>
    /\ UNCHANGED <<v0, nTimerEv, nMasked, nEdges, nTickCalls, pubs, takenFrom, nQualPub,
                   streak>>

\* Settle cut short by a command that arrived during the delay
SettleCancel ==
    /\ MainAt("settle")
    /\ pc' = IF CMD # None THEN Goto("take_enter") ELSE Goto("rest")
    /\ UNCHANGED <<cmd, curr_pos, new_pos, arg_pos, msaved>>
    /\ UNCHANGED <<hwVars, isr, pcintVars, timerVars, histVars>>

\* Settle followed by a flush of the mailbox
SettleFlush ==
    /\ MainAt("settle")
    /\ CMD' = None
    /\ pc' = Goto("rest")
    /\ UNCHANGED <<cntr, pos, ocr1a, RECEIVER, iflag, ocie0a, pcie2, ocf0a, pcif2>>
    /\ UNCHANGED <<cmd, curr_pos, new_pos, arg_pos, msaved>>
    /\ UNCHANGED <<isr, pcintVars, timerVars, histVars>>

\* delay_ms(1000)
Settle ==
    /\ MainAt("settle")
    /\ pc' = Goto("rest")
    /\ UNCHANGED <<cmd, curr_pos, new_pos, arg_pos, msaved>>
    /\ UNCHANGED <<hwVars, isr, pcintVars, timerVars, histVars>>

\* RestPos as the maximum
RestPosMax == SERVO_MAX

\* RestPos as the midpoint
RestPosMid == SERVO_MID

\* the position the loop returns the servo to after the settle delay
RestPos == SERVO_MIN

\* SERVO.set_pos(&dp.TC1, SERVO_MIN): the call; the report follows its return
Rest ==
    /\ MainAt("rest")
    /\ arg_pos' = RestPos
    /\ pc' = Call("set_enter", "sleep")
    /\ calls' = Append(calls, [op |-> "set_pos", pos |-> RestPos])
    /\ UNCHANGED <<cmd, curr_pos, new_pos, msaved>>
    /\ UNCHANGED <<hwVars, isr, pcintVars, timerVars>>
    /\ UNCHANGED <<v0, nTimerEv, nMasked, nEdges, nTickCalls, pubs, takenFrom, nToggle,
                   nQualPub, togglePos, streak>>

\* Sleep that leaves the loop instead of starting the next iteration
SleepBreak ==
    /\ MainAt("sleep")
    /\ pc' = Goto("exit")
    /\ UNCHANGED <<cmd, curr_pos, new_pos, arg_pos, msaved>>
    /\ UNCHANGED <<hwVars, isr, pcintVars, timerVars, histVars>>

\* delay_ms(100), then the next iteration
Sleep ==
    /\ MainAt("sleep")
    /\ pc' = Goto("take_enter")
    /\ UNCHANGED <<cmd, curr_pos, new_pos, arg_pos, msaved>>
    /\ UNCHANGED <<hwVars, isr, pcintVars, timerVars, histVars>>

(* ---- hardware events ---- *)
\* timer 0 reaches OCR0A: the compare flag is raised (once the timer runs)
TimerCompare ==
    /\ ocie0a
    /\ nTimerEv < MaxTicks
    /\ ocf0a' = TRUE
    /\ nTimerEv' = nTimerEv + 1
    /\ nMasked' = IF iflag THEN nMasked ELSE nMasked + 1
    /\ UNCHANGED <<cntr, CMD, pos, ocr1a, RECEIVER, iflag, ocie0a, pcie2, pcif2>>
    /\ UNCHANGED <<mainVars, isr, pcintVars, timerVars>>
    /\ UNCHANGED <<v0, nEdges, nTickCalls, pubs, takenFrom, calls, nToggle,
                   nQualPub, togglePos, streak>>

\* an edge on PD2: the pin-change flag is raised (once PCINT18 is enabled)
PinChange ==
    /\ pcie2
    /\ nEdges < MaxEdges
    /\ pcif2' = TRUE
    /\ nEdges' = nEdges + 1
    /\ UNCHANGED <<cntr, CMD, pos, ocr1a, RECEIVER, iflag, ocie0a, pcie2, ocf0a>>
    /\ UNCHANGED <<mainVars, isr, pcintVars, timerVars>>
    /\ UNCHANGED <<v0, nTimerEv, nMasked, nTickCalls, pubs, takenFrom, calls, nToggle,
                   nQualPub, togglePos, streak>>

(* ---- TIMER0_COMPA (main.rs 113-116) and Clock::tick (clock.rs 41-47) ---- *)
\* the hardware enters the handler: flag cleared, I cleared
TimerDispatch ==
    /\ iflag /\ ocie0a /\ ocf0a
    /\ tpc = "idle"
    /\ ocf0a' = FALSE
    /\ iflag' = FALSE
    /\ isr' = <<"TIMER0_COMPA">> \o isr
    /\ tpc' = "tick_enter"
    /\ nTickCalls' = nTickCalls + 1
    /\ UNCHANGED <<cntr, CMD, pos, ocr1a, RECEIVER, ocie0a, pcie2, pcif2>>
    /\ UNCHANGED <<mainVars, pcintVars, v, tsaved>>
    /\ UNCHANGED <<v0, nTimerEv, nMasked, nEdges, pubs, takenFrom, calls, nToggle,
                   nQualPub, togglePos, streak>>

TickEnter ==
    /\ InTimer("tick_enter")
    /\ tsaved' = iflag
    /\ iflag' = FreeEnter
    /\ tpc' = "tick_get"
    /\ UNCHANGED <<cntr, CMD, pos, ocr1a, RECEIVER, ocie0a, pcie2, ocf0a, pcif2>>
    /\ UNCHANGED <<mainVars, isr, pcintVars, v, histVars>>

\* let v = c.get()
TickGet ==
    /\ InTimer("tick_get")
    /\ v' = cntr
    /\ tpc' = "tick_set"
    /\ UNCHANGED <<hwVars, mainVars, isr, pcintVars, tsaved, histVars>>

\* c.set(v.wrapping_add(1))
TickSet ==
    /\ InTimer("tick_set")
    /\ cntr' = WrappingAdd1(v)
    /\ tpc' = "tick_exit"
    /\ UNCHANGED <<CMD, pos, ocr1a, RECEIVER, iflag, ocie0a, pcie2, ocf0a, pcif2>>
    /\ UNCHANGED <<mainVars, isr, pcintVars, v, tsaved, histVars>>

TickExit ==
    /\ InTimer("tick_exit")
    /\ iflag' = FreeExit(tsaved)
    /\ tpc' = "reti"
    /\ UNCHANGED <<cntr, CMD, pos, ocr1a, RECEIVER, ocie0a, pcie2, ocf0a, pcif2>>
    /\ UNCHANGED <<mainVars, isr, pcintVars, v, tsaved, histVars>>

\* reti: I set, the handler's frame is gone
TimerReti ==
    /\ InTimer("reti")
    /\ iflag' = TRUE
    /\ isr' = Tail(isr)
    /\ tpc' = "idle"
    /\ v' = U32(0, 0)
    /\ tsaved' = FALSE
    /\ UNCHANGED <<cntr, CMD, pos, ocr1a, RECEIVER, ocie0a, pcie2, ocf0a, pcif2>>
    /\ UNCHANGED <<mainVars, pcintVars, histVars>>

(* ---- PCINT2 (main.rs 92-110) and Clock::now (clock.rs 36-38) ---- *)
PcintDispatch ==
    /\ iflag /\ pcie2 /\ pcif2
    /\ ppc = "idle"
    /\ pcif2' = FALSE
    /\ iflag' = FALSE
    /\ isr' = <<"PCINT2">> \o isr
    /\ ppc' = "unwrap"
    /\ UNCHANGED <<cntr, CMD, pos, ocr1a, RECEIVER, ocie0a, pcie2, ocf0a>>
    /\ UNCHANGED <<mainVars, now, outcome, psaved, timerVars, histVars>>

\* RECEIVER.as_mut().unwrap(): a panic (panic_halt: the program stops) on None
PcintUnwrap ==
    /\ InPcint("unwrap")
    /\ ppc' = IF RECEIVER = "None" THEN "panic" ELSE "now_enter"
    /\ UNCHANGED <<hwVars, mainVars, isr, now, outcome, psaved, timerVars, histVars>>

NowEnter ==
    /\ InPcint("now_enter")
    /\ psaved' = iflag
    /\ iflag' = FreeEnter
    /\ ppc' = "now_get"
    /\ UNCHANGED <<cntr, CMD, pos, ocr1a, RECEIVER, ocie0a, pcie2, ocf0a, pcif2>>
    /\ UNCHANGED <<mainVars, isr, now, outcome, timerVars, histVars>>

\* NowGet that reads the counter as Cell::take does, leaving 0
NowGetTake ==
    /\ InPcint("now_get")
    /\ now' = cntr
    /\ cntr' = [hi |-> 0, lo |-> 0]
    /\ ppc' = "now_exit"
    /\ UNCHANGED <<CMD, pos, ocr1a, RECEIVER, iflag, ocie0a, pcie2, ocf0a, pcif2>>
    /\ UNCHANGED <<mainVars, isr, outcome, psaved, timerVars, histVars>>

\* self.cntr.borrow(cs).get()
NowGet ==
    /\ InPcint("now_get")
    /\ now' = cntr
    /\ ppc' = "now_exit"
    /\ UNCHANGED <<hwVars, mainVars, isr, outcome, psaved, timerVars, histVars>>

NowExit ==
    /\ InPcint("now_exit")
    /\ iflag' = FreeExit(psaved)
    /\ ppc' = "decode"
    /\ UNCHANGED <<cntr, CMD, pos, ocr1a, RECEIVER, ocie0a, pcie2, ocf0a, pcif2>>
    /\ UNCHANGED <<mainVars, isr, now, outcome, psaved, timerVars, histVars>>

\* Publishes with the pattern Ok(cmd): a partial frame stores its None
PublishesOnOk(o) == o.kind = "Ok"

\* whether the handler publishes: if let Ok(Some(cmd)) = ...
Publishes(o) == o.kind = "Ok" /\ o.val # None

\* recv.event_instant(now) and the test of its result
Decode ==
    /\ InPcint("decode")
    /\ \E o \in Outcomes :
        /\ outcome' = o
        /\ ppc' = IF Publishes(o) THEN "pub_enter" ELSE "reti"
    /\ UNCHANGED <<hwVars, mainVars, isr, now, psaved, timerVars, histVars>>

PubEnter ==
    /\ InPcint("pub_enter")
    /\ psaved' = iflag
    /\ iflag' = FreeEnter
    /\ ppc' = "pub_set"
    /\ UNCHANGED <<cntr, CMD, pos, ocr1a, RECEIVER, ocie0a, pcie2, ocf0a, pcif2>>
    /\ UNCHANGED <<mainVars, isr, now, outcome, timerVars, histVars>>

\* PubValue that lets a button press stay when a filtered command follows
PubValueKeepPress(cell, val) ==
    IF cell # None /\ ~cell[1].repeat /\ cell[1].cmd # 0
       /\ (val[1].repeat \/ val[1].cmd = 0)
    THEN cell
    ELSE val

\* PubValue that keeps a command still pending (first wins)
PubValueKeepFirst(cell, val) == IF cell = None THEN val ELSE cell

\* the cell after cell.set(Some(cmd)), val being the Some(cmd) that the
\* pattern Ok(Some(cmd)) matched
PubValue(cell, val) == val

\* cell.set(Some(cmd))
PubSet ==
    /\ InPcint("pub_set")
    /\ CMD' = PubValue(CMD, outcome.val)
    /\ ppc' = "pub_exit"
    /\ pubs' = Append(pubs, [val |-> outcome.val, settle |-> Head(pc) = "settle"])
    /\ nQualPub' = IF IsPress(outcome.val) THEN nQualPub + 1 ELSE nQualPub
    /\ UNCHANGED <<cntr, pos, ocr1a, RECEIVER, iflag, ocie0a, pcie2, ocf0a, pcif2>>
    /\ UNCHANGED <<mainVars, isr, now, outcome, psaved, timerVars>>
    /\ UNCHANGED <<v0, nTimerEv, nMasked, nEdges, nTickCalls, takenFrom, calls, nToggle,
                   togglePos, streak>>

PubExit ==
    /\ InPcint("pub_exit")
    /\ iflag' = FreeExit(psaved)
    /\ ppc' = "reti"
    /\ UNCHANGED <<cntr, CMD, pos, ocr1a, RECEIVER, ocie0a, pcie2, ocf0a, pcif2>>
    /\ UNCHANGED <<mainVars, isr, now, outcome, psaved, timerVars, histVars>>

\* reti: I set, the handler's frame is gone
PcintReti ==
    /\ InPcint("reti")
    /\ iflag' = TRUE
    /\ isr' = Tail(isr)
    /\ ppc' = "idle"
    /\ now' = U32(0, 0)
    /\ outcome' = NoOutcome
    /\ psaved' = FALSE
    /\ UNCHANGED <<cntr, CMD, pos, ocr1a, RECEIVER, ocie0a, pcie2, ocf0a, pcif2>>
    /\ UNCHANGED <<mainVars, timerVars, histVars>>

(* ---- specifications ---- *)
Boot == ClockStart \/ OcrInit \/ PcintCfg \/ RecvSet \/ Sei

StartupTest == TestMin1 \/ TestMax \/ TestMin2 \/ TestDone

ServoOps ==
    \/ SetPosEnter \/ SetPosBody \/ SetPosExit \/ SetPosOcr
    \/ GetPosEnter \/ GetPosBody \/ GetPosExit
    \/ ToggleDecide \/ ToggleRet

Loop == TakeEnter \/ TakeBody \/ TakeExit \/ Filter \/ Toggle \/ Settle \/ Rest \/ Sleep

TimerIsr == TimerDispatch \/ TickEnter \/ TickGet \/ TickSet \/ TickExit \/ TimerReti

PcintIsr ==
    \/ PcintDispatch \/ PcintUnwrap \/ NowEnter \/ NowGet \/ NowExit
    \/ Decode \/ PubEnter \/ PubSet \/ PubExit \/ PcintReti

Interrupts == TimerCompare \/ PinChange \/ TimerIsr \/ PcintIsr

Next == Boot \/ StartupTest \/ ServoOps \/ Loop \/ Interrupts

\* the whole program, from reset
Spec == Init /\ [][Next]_vars

(* ---- the program in steady state (booted, startup test done) ---- *)
Running ==
    /\ CMD = None
    /\ RECEIVER = "Some"
    /\ iflag = TRUE
    /\ ocie0a = TRUE
    /\ pcie2 = TRUE
    /\ ocf0a = FALSE
    /\ pcif2 = FALSE
    /\ curr_pos = 0
    /\ new_pos = 0
    /\ arg_pos = SERVO_MIN
    /\ msaved = TRUE
    /\ isr = << >>
    /\ ppc = "idle"
    /\ now = U32(0, 0)
    /\ outcome = NoOutcome
    /\ psaved = FALSE
    /\ tpc = "idle"
    /\ v = U32(0, 0)
    /\ tsaved = FALSE
    /\ nTimerEv = 0
    /\ nMasked = 0
    /\ nEdges = 0
    /\ nTickCalls = 0
    /\ pubs = << >>
    /\ takenFrom = << >>
    /\ calls = << >>
    /\ nToggle = 0
    /\ nQualPub = 0
    /\ togglePos = SERVO_MIN
    /\ streak = 0

\* counter values a run of ticks starts from: 0, a carry between the limbs,
\* and the last two values before the wrap to 0
ClockStarts ==
    {U32(0, 0), U32(0, LIMB - 1), U32(LIMB - 1, LIMB - 2), U32(LIMB - 1, LIMB - 1)}

\* the main loop waits in delay_ms(100) with the counter at any start value
ClockInit ==
    /\ Running
    /\ cntr \in ClockStarts
    /\ v0 = cntr
    /\ pos = SERVO_MIN
    /\ ocr1a = SERVO_MIN
    /\ pc = <<"sleep">>
    /\ cmd = None

\* Clock::tick and Clock::now as the handlers call them, main waiting
ClockSpec == ClockInit /\ [][Interrupts]_vars

\* stored positions toggle() is called at: the ends, the midpoint and its
\* neighbours, and one position inside each half
ServoPositions == {125, 250, 374, 375, 376, 500, 625}

\* the main loop has taken a button press and is about to call toggle()
ServoInit ==
    /\ Running
    /\ cntr = U32(0, 0)
    /\ v0 = cntr
    /\ pos \in ServoPositions
    /\ ocr1a = pos
    /\ pc = <<"toggle">>
    /\ cmd = Some([addr |-> 0, cmd |-> 1, repeat |-> FALSE])

ServoNext == Toggle \/ ServoOps \/ Interrupts

\* Servo::toggle from any stored position, with the interrupts running
ServoSpec == ServoInit /\ [][ServoNext]_vars

(* ---- properties ---- *)
\* the value of the last element of a history of publishes, None when empty
LastVal(h) == IF h = << >> THEN None ELSE h[Len(h)].val

\* C1 (mailbox latest-wins): the mailbox holds the latest command published
\* since the last take (and nothing when there was none), so at most one
\* command is pending; what a take returns is the latest command published
\* since the take before it, and empty when nothing was published in between.
C1_LatestWins ==
    /\ Len(CMD) <= 1
    /\ CMD = LastVal(pubs)
    /\ cmd = LastVal(takenFrom)

\* C1 witness: A then B (different) were published with no take in between,
\* and the take has returned B and left the mailbox empty
C1_Witness ==
    /\ Head(pc) = "take_exit"
    /\ Len(takenFrom) = 2
    /\ takenFrom[1].val # takenFrom[2].val
    /\ cmd = takenFrom[2].val
    /\ CMD = None

\* C2 (command filtering): for a taken command that is a repeat or has code 0
\* the main loop calls neither toggle() nor set_pos; for any other taken
\* command it has called, when the iteration ends, exactly toggle() and then
\* set_pos(MIN), and at no time anything but a prefix of that.
C2_Filtering ==
    LET cycle == <<[op |-> "toggle"], [op |-> "set_pos", pos |-> 125]>>
    IN  /\ cmd # None /\ (cmd[1].repeat \/ cmd[1].cmd = 0) => calls = << >>
        /\ cmd = None => calls = << >>
        /\ cmd # None /\ ~cmd[1].repeat /\ cmd[1].cmd # 0 =>
            /\ Len(calls) <= 2
            /\ calls = SubSeq(cycle, 1, Len(calls))
            /\ Head(pc) \in {"sleep", "take_enter", "take_body"} => calls = cycle

\* C2 witness: an iteration that took a button press has ended, with its
\* two calls made
C2_Witness ==
    /\ Head(pc) = "sleep"
    /\ cmd = Some([addr |-> 0, cmd |-> 1, repeat |-> FALSE])
    /\ calls = <<[op |-> "toggle"], [op |-> "set_pos", pos |-> 125]>>

\* whether the last publish of history h was made while the main loop was in
\* the settle delay (delay_ms(1000) between toggle() and set_pos(MIN))
LastInSettle(h) == h # << >> /\ h[Len(h)].settle

\* C3 as the claim states it: a command published during the settle delay is
\* never taken by the main loop.
C3_Original == ~LastInSettle(takenFrom)

\* C3 as amended: a command published during the settle delay stays in the
\* mailbox as long as no later command is published, the next take returns
\* it, and when it is a button press the main loop then runs one more
\* toggle() and set_pos(MIN); only a command that a later publish overwrites
\* before that take is lost.
C3_SettleCommandKept ==
    /\ LastInSettle(pubs) => CMD = LastVal(pubs) /\ CMD # None
    /\ LastInSettle(takenFrom) => cmd = LastVal(takenFrom) /\ cmd # None
    /\ LastInSettle(takenFrom) /\ IsPress(cmd) /\ Head(pc) = "sleep" =>
        calls = <<[op |-> "toggle"], [op |-> "set_pos", pos |-> 125]>>

\* C3 witness: a button press published during the settle delay of one cycle
\* has been taken and has caused a second toggle
C3_Witness ==
    /\ Head(pc) = "sleep"
    /\ LastInSettle(takenFrom)
    /\ IsPress(cmd)
    /\ nToggle = 2
    /\ Len(calls) = 2

\* C4 (actuator range): the stored position is within [125, 625] in every
\* reachable state of the whole program.
C4_Range == pos >= 125 /\ pos <= 625

\* C4 witness: a toggle() of the main loop has stored MAX
C4_Witness == Head(pc) = "settle" /\ nToggle = 1 /\ pos = 625

\* (x + n) mod 2^32 on limbs, for n < 2^16
AddMod32(x, n) ==
    U32((x.hi + ((x.lo + n) \div LIMB)) % LIMB, (x.lo + n) % LIMB)

\* C5 (tick clock wraparound): with the counter started at v0, whenever N
\* calls of tick() have been made and completed the counter is
\* (v0 + N) mod 2^32, and that is what a now() of the pin-change handler
\* returns.
C5_Wraparound ==
    /\ tpc = "idle" => cntr = AddMod32(v0, nTickCalls)
    /\ ppc \in {"now_exit", "decode"} => now = AddMod32(v0, nTickCalls)

\* C5 witness: one tick from 2^32 - 1, and now() has returned 0
C5_Witness ==
    /\ v0 = U32(LIMB - 1, LIMB - 1)
    /\ nTickCalls = 1
    /\ ppc = "decode"
    /\ now = U32(0, 0)

\* C6 (toggle policy): when toggle() has returned, it has returned MAX if the
\* position stored at the call was <= 375 and MIN otherwise, and the stored
\* position and the compare register are the returned value.
C6_TogglePolicy ==
    Head(pc) = "settle" =>
        /\ togglePos <= 375 => new_pos = 625
        /\ togglePos > 375 => new_pos = 125
        /\ pos = new_pos
        /\ ocr1a = new_pos

\* C6 witness: toggle() called at the midpoint has returned MAX
C6_Witness ==
    /\ Head(pc) = "settle"
    /\ togglePos = 375
    /\ new_pos = 625
    /\ pos = 625

\* C7 (position/register sync): once the boot code has written the register
\* and outside the part of set_pos between its store and its register write,
\* the stored position and the compare register are equal, whatever
\* interrupts have run.
C7_Sync ==
    Head(pc) \notin {"clock_start", "ocr_init", "set_exit", "set_ocr"} =>
        pos = ocr1a

\* C7 witness: set_pos(MAX) of the startup test has returned, a tick and a
\* pin-change handler having run since boot
C7_Witness ==
    /\ Head(pc) = "test_min2"
    /\ isr = << >>
    /\ pos = 625
    /\ ocr1a = 625
    /\ nTickCalls >= 1
    /\ nEdges >= 1
    /\ ~pcif2

\* C8 (settle sequence): a cycle that starts with the stored position at MIN
\* holds position and register at MAX during the settle delay and ends with
\* both at MIN, having made exactly toggle() and set_pos(MIN); the mailbox is
\* then empty unless a command was published since the take; and each of
\* several button presses taken in successive polls has had its own toggle.
C8_SettleSequence ==
    /\ Head(pc) = "settle" /\ togglePos = 125 => pos = 625 /\ ocr1a = 625
    /\ Head(pc) = "sleep" /\ IsPress(cmd) /\ togglePos = 125 =>
        /\ pos = 125
        /\ ocr1a = 125
        /\ calls = <<[op |-> "toggle"], [op |-> "set_pos", pos |-> 125]>>
        /\ pubs = << >> => CMD = None
        /\ nToggle >= streak

\* C8 witness: two button presses taken in two successive polls, the second
\* cycle ended at MIN with the mailbox empty
C8_Witness ==
    /\ Head(pc) = "sleep"
    /\ streak = 2
    /\ nToggle = 2
    /\ pos = 125
    /\ ocr1a = 125
    /\ CMD = None

\* C9 (decode hand-off): while the pin-change handler runs, a step changes
\* the mailbox only when the decoder returned a complete command, and then to
\* exactly that command; the stored position and the clock counter are not
\* changed; after a partial frame or an error no step changes the mailbox.
C9_HandOff ==
    [][(isr # << >> /\ Head(isr) = "PCINT2") =>
        /\ CMD' # CMD =>
            /\ outcome.kind = "Ok"
            /\ outcome.val # None
            /\ CMD' = outcome.val
        /\ pos' = pos
        /\ cntr' = cntr]_vars

\* C9 witness: the handler is about to return after a decode error, a command
\* of an earlier interrupt still pending in the mailbox
C9_Witness ==
    /\ InPcint("reti")
    /\ outcome.kind = "Err"
    /\ CMD # None

\* C10 (critical sections): while the main loop is inside an access to a
\* shared cell (mailbox take, position read, position write: from the cli of
\* interrupt::free to the restore of SREG) no handler is executing and
\* interrupts are disabled.
C10_MutualExclusion ==
    Head(pc) \in {"take_body", "take_exit", "get_body", "get_exit",
                  "set_body", "set_exit"} =>
        isr = << >> /\ ~iflag

\* C10 witness: the main loop is inside the mailbox take with both
\* interrupts pending
C10_Witness ==
    /\ Head(pc) = "take_body"
    /\ ocf0a
    /\ pcif2
    /\ isr = << >>

(* ---- the program under its timer configuration ---- *)
\* Timer 0 matches every 50us (Clock::FREQ, PRESCALER, TOP).  Configured
\* correctly, interrupts are never disabled for a whole period: a compare
\* match finds the flag of the match before it already served.
TimerCompareTimely == ~ocf0a /\ TimerCompare

TimelyNext ==
    \/ Boot \/ StartupTest \/ ServoOps \/ Loop
    \/ TimerCompareTimely \/ PinChange \/ TimerIsr \/ PcintIsr

\* the whole program, from reset, no compare match overtaking a pending one
TimelySpec == Init /\ [][TimelyNext]_vars

C12_NoPanic ==
    /\ ppc # "panic"
    /\ isr # << >> => RECEIVER = "Some"
    /\ iflag => RECEIVER = "Some"

\* C12 witness: an edge was flagged before interrupts were enabled, and the
\* handler, entered at the first place after the enable, has passed unwrap()
C12_Witness ==
    /\ InPcint("now_enter")
    /\ Head(pc) = "test_min1"
    /\ RECEIVER = "Some"

\* C13 (no nesting): at most one handler is executing, and while one is the
\* I flag is clear, also after the handler's own critical sections.
C13_NoNesting ==
    /\ Len(isr) <= 1
    /\ isr # << >> => ~iflag

\* C13 witness: the pin-change handler has left the critical section of
\* Clock::now with the timer interrupt pending, and the timer handler has
\* not begun
C13_Witness ==
    /\ InPcint("decode")
    /\ ocf0a
    /\ tpc = "idle"
    /\ Len(isr) = 1

(* ---- the program with a CPU that keeps executing ---- *)
\* the steps the CPU takes: main's and the handlers', entry and reti included
Cpu == Boot \/ StartupTest \/ ServoOps \/ Loop \/ TimerIsr \/ PcintIsr

\* the CPU never stops: whenever it has a next instruction it executes one.
\* The hardware events are few, so the main program runs between interrupts.
FairSpec == Spec /\ WF_vars(Cpu)

\* C14 (main-loop liveness): the main loop completes a take() again and
\* again, and whenever the mailbox holds a command a take() eventually
\* returns a command and leaves the mailbox empty.
C14_Liveness ==
    /\ []<>(Head(pc) = "take_exit")
    /\ (CMD # None) ~> (Head(pc) = "take_exit" /\ cmd # None /\ CMD = None)

\* C14 witness: a take() has returned a command and emptied the mailbox
C14_Witness ==
    /\ Head(pc) = "take_exit"
    /\ cmd # None
    /\ CMD = None
    /\ isr = << >>

\* C15 (non-cancellable settle): from the return of toggle() to the call of
\* set_pos(MIN) the stored position and the compare register keep the value
\* toggle() returned, whatever is published meanwhile; the main loop leaves
\* the settle delay only towards that call; and the call is then made and
\* completed.
C15_NonCancellable ==
    /\ [](Head(pc) \in {"settle", "rest"} => pos = new_pos /\ ocr1a = new_pos)
    /\ [][Head(pc) = "settle" /\ pc' # pc => Head(pc') = "rest"]_vars
    /\ (Head(pc) = "settle") ~>
           (/\ Head(pc) = "sleep"
            /\ calls = <<[op |-> "toggle"], [op |-> "set_pos", pos |-> 125]>>
            /\ pos = 125
            /\ ocr1a = 125)

\* C15 witness: a command was published during the settle delay, and at the
\* call of set_pos(MIN) position and register still hold MAX
C15_Witness ==
    /\ MainAt("rest")
    /\ LastInSettle(pubs)
    /\ CMD # None
    /\ pos = 625
    /\ ocr1a = 625

\* C16 (clock write ownership): a step changes the clock counter only when
\* it is the c.set of Clock::tick in the timer handler; no step of the
\* pin-change handler (Clock::now included) or of the main program does.
C16_ClockOwnership ==
    [][/\ cntr' # cntr => InTimer("tick_set")
       /\ (isr = << >> \/ Head(isr) = "PCINT2") => cntr' = cntr]_vars

\* C16 witness: Clock::now has read a counter that a tick had advanced, and
\* the counter is as it was
C16_Witness ==
    /\ InPcint("now_exit")
    /\ now = U32(0, 1)
    /\ cntr = U32(0, 1)
    /\ nTickCalls = 1

\* C17 (toggle always commands MAX): from the first poll on, the stored
\* position is MIN wherever the main loop polls, filters or calls toggle(),
\* so every toggle() is called at MIN, reads MIN and returns MAX.
C17_ToggleFromMin ==
    /\ Head(pc) \in {"take_enter", "take_body", "take_exit", "filter",
                     "toggle", "sleep"} => pos = 125
    /\ togglePos = 125
    /\ Head(pc) \in {"get_exit", "toggle_decide"} => curr_pos = 125
    /\ Head(pc) \in {"toggle_ret", "settle"} => new_pos = 625

\* C17 witness: the second toggle() of a run has returned MAX as the first
C17_Witness ==
    /\ Head(pc) = "settle"
    /\ nToggle = 2
    /\ togglePos = 125
    /\ new_pos = 625

\* C18 (no spurious or duplicated actuation): toggle() has been called at
\* most as often as button presses were published, and a command a take()
\* returned was published since the take before it, so that no published
\* command is taken twice.
C18_NoSpuriousToggle ==
    /\ nToggle <= nQualPub
    /\ cmd # None => takenFrom # << >>

\* C18 witness: two button presses were published and one toggle() made, the
\* first press having been overwritten, and a later poll has found nothing
C18_Witness ==
    /\ nQualPub = 2
    /\ nToggle = 1
    /\ Head(pc) = "take_exit"
    /\ cmd = None
    /\ takenFrom = << >>

\* C19 (press overwritten by a filtered command): when the publishes a
\* take() found were a button press and, last, a repeat or code-0 command,
\* the main loop has taken the last one only and makes no call; position
\* and register stay at MIN.
C19_OverwrittenPress ==
    (/\ Len(takenFrom) >= 2
     /\ \E i \in 1..(Len(takenFrom) - 1) : IsPress(takenFrom[i].val)
     /\ ~IsPress(LastVal(takenFrom))) =>
        /\ cmd = LastVal(takenFrom)
        /\ calls = << >>
        /\ pos = 125
        /\ ocr1a = 125
        /\ Head(pc) \in {"take_exit", "filter", "sleep", "take_enter", "take_body"}

\* C19 witness: a press, then a repeat, were published before one take();
\* the iteration has ended without a toggle
C19_Witness ==
    /\ Head(pc) = "sleep"
    /\ Len(takenFrom) = 2
    /\ IsPress(takenFrom[1].val)
    /\ takenFrom[2].val # None /\ takenFrom[2].val[1].repeat
    /\ nToggle = 0
    /\ nQualPub = 1

=============================================================================
